---- MODULE Spec2Model ----
(***************************************************************************)
(* A model of scrape_vtu_internships.py: the extraction routine            *)
(* scrape_cards_on_page, the pagination heuristic click_next_page, the     *)
(* driver loop scrape_site and the sink save_results.                      *)
(*                                                                         *)
(* Texts are sequences of one-character strings, so that strip(), lower()  *)
(* and the substring test `in` are computed and not assumed.               *)
(***************************************************************************)
EXTENDS Integers, Sequences, FiniteSets, TLC

(***************************************************************************)
(* Bounds of the model.                                                    *)
(***************************************************************************)
MaxLen == 2        \* longest raw text of a Title lookup and of a keyword
NumPages == 3      \* most result pages a site has
MaxPagesArg == 2   \* largest --max-pages value tried
MaxRows == 2       \* longest record list handed to save_results

(***************************************************************************)
(* Texts.                                                                  *)
(***************************************************************************)
Chars == {"a", "A", "b", " "}

SeqsUpTo(S, n) == UNION {[1..k -> S] : k \in 0..n}

\* str.lower() on one character, for the characters the model uses
LowerChar(c) ==
    CASE c = "A" -> "a"
      [] c = "B" -> "b"
      [] c = "D" -> "d"
      [] c = "N" -> "n"
      [] c = "T" -> "t"
      [] OTHER -> c

\* str.lower()
Lower(t) == [i \in 1..Len(t) |-> LowerChar(t[i])]

IsSpace(c) == c = " "

RECURSIVE LStrip(_)
LStrip(t) == IF t # <<>> /\ IsSpace(Head(t)) THEN LStrip(Tail(t)) ELSE t

RECURSIVE RStrip(_)
RStrip(t) ==
    IF t # <<>> /\ IsSpace(t[Len(t)]) THEN RStrip(SubSeq(t, 1, Len(t) - 1)) ELSE t

\* str.strip()
Strip(t) == RStrip(LStrip(t))

\* Python's `needle in hay` on strings
Contains(needle, hay) ==
    \E i \in 0..(Len(hay) - Len(needle)) : SubSeq(hay, i + 1, i + Len(needle)) = needle

(***************************************************************************)
(* get_text_safe: one lookup is an element that is found or not, with the  *)
(* visible text of the element found.                                      *)
(***************************************************************************)
NoElem == [found |-> FALSE, text |-> <<>>]
Elem(t) == [found |-> TRUE, text |-> t]

\* the css lookup wins whenever its element exists, even with empty text;
\* the xpath lookup is tried only when the css lookup raised
get_text_safe(src) ==
    IF src.css.found THEN Strip(src.css.text)
    ELSE IF src.xpath.found THEN Strip(src.xpath.text)
    ELSE <<>>

Src(c, x) == [css |-> c, xpath |-> x]

OtherFields == {"Location", "Mode", "Duration", "Fees", "Apply-by"}
FieldNames == {"Title", "Company"} \cup OtherFields

\* Optional[str]: None is [some |-> FALSE]
None == [some |-> FALSE, val |-> <<>>]
Some(t) == [some |-> TRUE, val |-> t]

\* Python truthiness of an Optional[str]
Truthy(o) == o.some /\ o.val # <<>>

(***************************************************************************)
(* scrape_cards_on_page.  A page lists, for each of the five container     *)
(* selectors and for the XPath fallback, the containers it matches, in     *)
(* DOM order; a container gives, for each field, its two lookups.          *)
(***************************************************************************)
NumCardSelectors == 5

RECURSIVE FirstMatch(_, _)
FirstMatch(page, k) ==
    IF k > NumCardSelectors THEN page.fallback
    ELSE IF page.bySelector[k] # <<>> THEN page.bySelector[k]
    ELSE FirstMatch(page, k + 1)

FindCards(page) == FirstMatch(page, 1)

MakeItem(card) == [f \in FieldNames |-> get_text_safe(card[f])]

\* line 119: `if not (title or company): continue`
AdmitAll(item) == TRUE
Admitted(item) == item.Title # <<>> \/ item.Company # <<>>

\* lines 132-135: the keyword test
KeywordNoLower(item, keyword) ==
    ~Truthy(keyword)
    \/ Contains(keyword.val, Lower(item.Title))
    \/ Contains(keyword.val, Lower(item.Company))
KeywordPasses(item, keyword) ==
    ~Truthy(keyword)
    \/ Contains(Lower(keyword.val), Lower(item.Title))
    \/ Contains(Lower(keyword.val), Lower(item.Company))

RECURSIVE CardLoop(_, _, _, _)
CardLoop(cs, keyword, i, results) ==
    IF i > Len(cs) THEN results
    ELSE LET item == MakeItem(cs[i])
         IN  IF ~Admitted(item) THEN CardLoop(cs, keyword, i + 1, results)
             ELSE IF ~KeywordPasses(item, keyword)
                  THEN CardLoop(cs, keyword, i + 1, results)
             ELSE CardLoop(cs, keyword, i + 1, Append(results, item))

scrape_cards_on_page(page, keyword) == CardLoop(FindCards(page), keyword, 1, <<>>)

(***************************************************************************)
(* Pagination controls.  An element carries what the six selectors of      *)
(* click_next_page and its disabled test read.                             *)
(***************************************************************************)
TxtNext == <<"N", "e", "x", "t">>
TxtNextLower == <<"n", "e", "x", "t">>
TxtNextArrow == <<"N", "e", "x", "t", " ", ">">>
TxtArrow == <<">">>
TxtTwo == <<"2">>
TxtDisabled == <<"d", "i", "s", "a", "b", "l", "e", "d">>
TxtBtnDisabled == <<"b", "t", "n", " ", "D", "i", "s", "a", "b", "l", "e", "d">>
TxtTrue == <<"t", "r", "u", "e">>
TxtTrueCap == <<"T", "r", "u", "e">>
TxtFalse == <<"f", "a", "l", "s", "e">>

Control(tag, rel, text, label, li, pag) ==
    [tag |-> tag, rel |-> rel, text |-> text, ariaLabel |-> label, liNext |-> li,
     inPagination |-> pag, cls |-> <<>>, ariaDisabled |-> None, disabled |-> FALSE,
     intercepted |-> FALSE]

ARelNext == Control("a", "next", TxtArrow, "", FALSE, FALSE)
ANext == Control("a", "", TxtNext, "", FALSE, TRUE)
ANextArrow == Control("a", "", TxtNextArrow, "", FALSE, FALSE)
ANextLower == Control("a", "", TxtNextLower, "", FALSE, FALSE)
BtnNext == Control("button", "", TxtArrow, "Next", FALSE, FALSE)
ALiNext == Control("a", "", TxtArrow, "", TRUE, TRUE)
APageTwo == Control("a", "", TxtTwo, "", FALSE, TRUE)

WithClass(e, c) == [e EXCEPT !.cls = c]
WithAria(e, v) == [e EXCEPT !.ariaDisabled = Some(v)]
WithDisabledAttr(e) == [e EXCEPT !.disabled = TRUE]
Overlaid(e) == [e EXCEPT !.intercepted = TRUE]

NumNextSelectors == 6

\* lines 143-150: the six locators, in their order
Matches(sel, e) ==
    CASE sel = 1 -> e.tag = "a" /\ e.rel = "next"
      [] sel = 2 -> e.tag = "a" /\ Strip(e.text) = TxtNext
      [] sel = 3 -> e.tag = "a" /\ Contains(TxtNext, e.text)
      [] sel = 4 -> e.tag = "button" /\ e.ariaLabel = "Next"
      [] sel = 5 -> e.tag = "a" /\ e.liNext
      [] sel = 6 -> e.tag = "a" /\ (Contains(TxtNext, e.text) \/ Contains(TxtNextLower, e.text))

\* line 182: "ul.pagination li a, nav[role='navigation'] a"
MatchesPagination(e) == e.tag = "a" /\ e.inPagination

\* lines 184-185
TextHasNext(e) == Contains(TxtNextLower, Lower(Strip(e.text)))

\* lines 159-167
IsDisabled(e) ==
    \/ (Truthy(e.ariaDisabled) /\ Lower(e.ariaDisabled.val) = TxtTrue)
    \/ e.disabled
    \/ Contains(TxtDisabled, Lower(e.cls))

\* find_elements: the indices, in DOM order, of the controls a locator
\* matches, given which controls it matches
RECURSIVE IndicesFrom(_, _)
IndicesFrom(hits, k) ==
    IF k > Len(hits) THEN <<>>
    ELSE (IF hits[k] THEN <<k>> ELSE <<>>) \o IndicesFrom(hits, k + 1)

FindBySelector(ctl, sel) == IndicesFrom([k \in 1..Len(ctl) |-> Matches(sel, ctl[k])], 1)
FindPagination(ctl) == IndicesFrom([k \in 1..Len(ctl) |-> MatchesPagination(ctl[k])], 1)

(***************************************************************************)
(* The site scrape_site is run against: site.pages result pages, of which  *)
(* every one but the last shows the controls site.ctl and the last shows   *)
(* site.lastCtl.  site.beh is what                                         *)
(* a click on a control does while a further page exists:                  *)
(*   "navigate"  a page load: the next page, the clicked element detached; *)
(*   "inplace"   the next page rendered into the same document: the        *)
(*               clicked element stays attached, staleness never shows;    *)
(*   "none"      nothing.                                                  *)
(***************************************************************************)
Layouts ==
    { <<>>, <<ARelNext>>, <<APageTwo, ANext>>, <<BtnNext>>, <<ALiNext>>,
      <<ANextLower>>, <<ANextArrow>>, <<Overlaid(ANext)>>, <<Overlaid(BtnNext)>> }

LastLayouts ==
    { <<>>, <<APageTwo, WithClass(ANext, TxtBtnDisabled)>>,
      <<WithAria(ARelNext, TxtTrueCap)>>, <<WithDisabledAttr(BtnNext)>>,
      <<WithAria(ANextLower, TxtFalse)>>, <<APageTwo, ANext>> }

Behaviours == {"navigate", "inplace", "none"}

Sites == [ctl : Layouts, lastCtl : LastLayouts, beh : Behaviours, pages : 1..NumPages]

\* Optional[int]
NoInt == [some |-> FALSE, val |-> 0]
SomeInt(n) == [some |-> TRUE, val |-> n]
TruthyInt(o) == o.some /\ o.val # 0

MaxPagesArgs == {NoInt} \cup {SomeInt(n) : n \in -1..MaxPagesArg}
KeywordArgs == {None, Some(<<"A">>)}

\* the listing containers of page p
DigitChar(n) == <<"0", "1", "2", "3", "4", "5", "6", "7", "8", "9">>[n + 1]
OtherSeq == <<"Location", "Mode", "Duration", "Fees", "Apply-by">>
ByCss(t) == Src(Elem(t), NoElem)
ByXPath(t) == Src(NoElem, Elem(t))
Missing == Src(NoElem, NoElem)

Card(title, company, other) ==
    [f \in FieldNames |->
        IF f = "Title" THEN title ELSE IF f = "Company" THEN company ELSE other[f]]

AllOthers(src) == [f \in OtherFields |-> src]
AllBut(k) == [f \in OtherFields |-> IF f = OtherSeq[k] THEN Missing ELSE ByCss(<<"b">>)]

PageCards(p) ==
    << Card(ByCss(<<"a", DigitChar(p)>>), Missing, AllOthers(Missing)),
       Card(ByCss(<<" ">>), ByXPath(<<>>), AllOthers(ByCss(<<"b">>))),
       Card(Missing, ByXPath(<<" ", "A", "b">>), AllOthers(ByXPath(<<"b">>))),
       Card(ByXPath(<<"b", DigitChar(p)>>), Missing, AllOthers(ByCss(<<"b">>))) >>
    \o [k \in 1..Len(OtherSeq) |-> Card(ByCss(<<"B", DigitChar(k)>>), ByCss(<<"a">>), AllBut(k))]

\* page p keeps its containers under container selector 2p-1, or, past the
\* fifth selector, where only the XPath fallback finds them
CardPage(p) ==
    [bySelector |-> [k \in 1..NumCardSelectors |-> IF k = 2 * p - 1 THEN PageCards(p) ELSE <<>>],
     fallback |-> IF 2 * p - 1 > NumCardSelectors THEN PageCards(p) ELSE <<>>]

EmptyPage == [bySelector |-> [k \in 1..NumCardSelectors |-> <<>>], fallback |-> <<>>]

(***************************************************************************)
(* State.                                                                  *)
(***************************************************************************)
VARIABLES
    site,         \* the site behind start_url
    max_pages,    \* --max-pages, an Optional[int]
    keyword,      \* --keyword, an Optional[str]
    pc,           \* position in scrape_site
    cur,          \* the page the browser shows
    page_num,     \* scrape_site's page counter
    all_results,  \* scrape_site's accumulated records
    has_next,     \* what click_next_page returned
    cnp,          \* click_next_page's locals, with the clicks it delivered
    quits,        \* calls of driver.quit
    lateOps,      \* driver operations issued after driver.quit
    visited,      \* the page of each extraction pass, in order
    nextCalls,    \* calls of click_next_page
    exc,          \* the exception propagating out of the try block
    ret,          \* the list scrape_site returns
    cx,           \* one call of scrape_cards_on_page on its own
    sv            \* one call of save_results on its own

runVars == <<site, max_pages, keyword, pc, cur, page_num, all_results, has_next, cnp,
             quits, lateOps, visited, nextCalls, exc, ret>>
vars == <<runVars, cx, sv>>

NoResults == [some |-> FALSE, val |-> <<>>]
CnpIdle == [phase |-> "idle", sel |-> 0, elems |-> <<>>, i |-> 0, clicks |-> 0,
            start |-> 0, foundOn |-> 0]
CxIdle == [page |-> EmptyPage, keyword |-> None, done |-> FALSE, results |-> <<>>]

\* Optional[str] holding a path
NoPath == [some |-> FALSE, val |-> ""]
SomePath(p) == [some |-> TRUE, val |-> p]
TruthyPath(o) == o.some /\ o.val # ""

\* the files save_results can touch, and what a file holds
Paths == {"out.csv", "out.json"}
Absent == [fmt |-> "absent", body |-> <<>>]
Old == [fmt |-> "old", body |-> <<>>]
FileSystems == [Paths -> {Absent, Old}]

SvIdle == [rows |-> <<>>, csv_path |-> "out.csv", json_path |-> NoPath,
           fs0 |-> [p \in Paths |-> Absent], fs |-> [p \in Paths |-> Absent],
           writes |-> <<>>, done |-> FALSE]

\* the controls of page p
Ctl(p) == IF p < site.pages THEN site.ctl ELSE site.lastCtl

\* every use of the driver: counted when the session is already released
DriverOp == lateOps' = IF quits > 0 THEN lateOps + 1 ELSE lateOps

\* line 215
ExtendFront(all, page_results) == page_results \o all
Extend(all, page_results) == all \o page_results

\* line 217: `if max_pages and page_num >= max_pages`
ReachedLimitOffByOne(mp, n) == TruthyInt(mp) /\ n > mp.val
ReachedLimit(mp, n) == TruthyInt(mp) /\ n >= mp.val

(***************************************************************************)
(* scrape_site.  The state after construction: create_driver has returned. *)
(***************************************************************************)
Init ==
    /\ site \in Sites
    /\ max_pages \in MaxPagesArgs
    /\ keyword \in KeywordArgs
    /\ pc = "get"
    /\ cur = 1
    /\ page_num = 0
    /\ all_results = <<>>
    /\ has_next = FALSE
    /\ cnp = CnpIdle
    /\ quits = 0
    /\ lateOps = 0
    /\ visited = <<>>
    /\ nextCalls = 0
    /\ exc = "none"
    /\ ret = NoResults
    /\ cx = CxIdle
    /\ sv = SvIdle

\* line 202: driver.get, which loads the page or raises
Get ==
    /\ pc = "get"
    /\ DriverOp
    /\ \/ pc' = "wait" /\ exc' = exc
       \/ pc' = "finally" /\ exc' = "WebDriverException"
    /\ UNCHANGED <<site, max_pages, keyword, cur, page_num, all_results, has_next, cnp,
                   quits, visited, nextCalls, ret, cx, sv>>

\* lines 208-211: the counter, and wait_for_visible, which swallows a
\* TimeoutException and nothing else
WaitForVisible ==
    /\ pc = "wait"
    /\ DriverOp
    /\ page_num' = page_num + 1
    /\ cnp' = CnpIdle
    /\ \/ pc' = "scrape" /\ exc' = exc                   \* visible in time
       \/ pc' = "scrape" /\ exc' = exc                   \* TimeoutException, swallowed
       \/ pc' = "finally" /\ exc' = "WebDriverException"
    /\ UNCHANGED <<site, max_pages, keyword, cur, all_results, has_next,
                   quits, visited, nextCalls, ret, cx, sv>>

\* lines 213-221: one extraction pass, then the page limit, then the call
\* of click_next_page
ScrapePage ==
    /\ pc = "scrape"
    /\ DriverOp
    /\ LET page_results == scrape_cards_on_page(CardPage(cur), keyword)
           all == Extend(all_results, page_results)
       IN  /\ all_results' = all
           /\ visited' = Append(visited, cur)
           /\ IF ReachedLimit(max_pages, page_num)
              THEN /\ pc' = "finally"
                   /\ ret' = [some |-> TRUE, val |-> all]
                   /\ UNCHANGED <<cnp, nextCalls>>
              ELSE /\ pc' = "cnp"
                   /\ cnp' = [CnpIdle EXCEPT !.phase = "find", !.sel = 1, !.start = cur]
                   /\ nextCalls' = nextCalls + 1
                   /\ ret' = ret
    /\ UNCHANGED <<site, max_pages, keyword, cur, page_num, has_next, quits,
                   exc, cx, sv>>

(***************************************************************************)
(* click_next_page, one candidate at a time.                               *)
(***************************************************************************)
\* what a delivered click does to the page shown
Advances(p) == site.beh # "none" /\ p < site.pages
AfterClick(p) == IF Advances(p) THEN p + 1 ELSE p

\* EC.staleness_of(el) within the 8 s: the clicked element is detached by a
\* page load, or by a re-render that does not keep the controls
Detached(p) == Advances(p) /\ (site.beh = "navigate" \/ Ctl(p + 1) # Ctl(p))

\* an element found earlier is still attached to the document shown
Attached == cnp.foundOn = cur \/ Ctl(cnp.foundOn) = Ctl(cur)

Candidate == Ctl(cur)[cnp.elems[cnp.i]]

\* line 152: the next locator, or, past the sixth, the pagination fallback
AfterSelector(c) ==
    IF c.sel = NumNextSelectors
    THEN [c EXCEPT !.phase = "pagfind", !.elems = <<>>, !.i = 0]
    ELSE [c EXCEPT !.phase = "find", !.sel = c.sel + 1, !.elems = <<>>, !.i = 0]

\* lines 154-156
CnpFind ==
    /\ pc = "cnp" /\ cnp.phase = "find"
    /\ DriverOp
    /\ LET found == FindBySelector(Ctl(cur), cnp.sel)
       IN  cnp' = IF found = <<>> THEN AfterSelector(cnp)
                  ELSE [cnp EXCEPT !.phase = "elem", !.elems = found, !.i = 1,
                                   !.foundOn = cur]
    /\ UNCHANGED <<site, max_pages, keyword, pc, cur, page_num, all_results, has_next,
                   quits, visited, nextCalls, exc, ret, cx, sv>>

\* line 157, the list exhausted
CnpNextSelector ==
    /\ pc = "cnp" /\ cnp.phase = "elem" /\ cnp.i > Len(cnp.elems)
    /\ cnp' = AfterSelector(cnp)
    /\ UNCHANGED <<site, max_pages, keyword, pc, cur, page_num, all_results, has_next,
                   quits, lateOps, visited, nextCalls, exc, ret, cx, sv>>

\* lines 159-167 and 174-177: a detached element raises and is passed
\* over, a disabled one is passed over
CnpSkip ==
    /\ pc = "cnp" /\ cnp.phase = "elem" /\ cnp.i <= Len(cnp.elems)
    /\ DriverOp
    /\ ~Attached \/ IsDisabled(Candidate)
    /\ cnp' = [cnp EXCEPT !.i = cnp.i + 1]
    /\ UNCHANGED <<site, max_pages, keyword, pc, cur, page_num, all_results, has_next,
                   quits, visited, nextCalls, exc, ret, cx, sv>>

\* lines 168-177: el.click(), or the script click when it raises; then the
\* staleness wait, whose TimeoutException `except Exception: continue` takes
CnpClick ==
    /\ pc = "cnp" /\ cnp.phase = "elem" /\ cnp.i <= Len(cnp.elems)
    /\ DriverOp
    /\ Attached /\ ~IsDisabled(Candidate)
    /\ cur' = AfterClick(cur)
    /\ IF Detached(cur)
       THEN /\ cnp' = [cnp EXCEPT !.phase = "returned", !.clicks = cnp.clicks + 1]
            /\ has_next' = TRUE
            /\ pc' = "postwait"
       ELSE /\ cnp' = [cnp EXCEPT !.i = cnp.i + 1, !.clicks = cnp.clicks + 1]
            /\ UNCHANGED <<has_next, pc>>
    /\ UNCHANGED <<site, max_pages, keyword, page_num, all_results,
                   quits, visited, nextCalls, exc, ret, cx, sv>>

\* line 182
PagFind ==
    /\ pc = "cnp" /\ cnp.phase = "pagfind"
    /\ DriverOp
    /\ cnp' = [cnp EXCEPT !.phase = "pagelem", !.elems = FindPagination(Ctl(cur)),
                          !.i = 1, !.foundOn = cur]
    /\ UNCHANGED <<site, max_pages, keyword, pc, cur, page_num, all_results, has_next,
                   quits, visited, nextCalls, exc, ret, cx, sv>>

\* lines 184-191: a link without "next" in its text is passed over; a
\* click that raises is passed over
PagSkip ==
    /\ pc = "cnp" /\ cnp.phase = "pagelem" /\ cnp.i <= Len(cnp.elems)
    /\ DriverOp
    /\ Attached
    /\ ~TextHasNext(Candidate) \/ Candidate.intercepted
    /\ cnp' = [cnp EXCEPT !.i = cnp.i + 1]
    /\ UNCHANGED <<site, max_pages, keyword, pc, cur, page_num, all_results, has_next,
                   quits, visited, nextCalls, exc, ret, cx, sv>>

\* lines 185-191: the fallback clicks with no disabled test
PagClick ==
    /\ pc = "cnp" /\ cnp.phase = "pagelem" /\ cnp.i <= Len(cnp.elems)
    /\ DriverOp
    /\ Attached /\ TextHasNext(Candidate) /\ ~Candidate.intercepted
    /\ cur' = AfterClick(cur)
    /\ IF Detached(cur)
       THEN /\ cnp' = [cnp EXCEPT !.phase = "returned", !.clicks = cnp.clicks + 1]
            /\ has_next' = TRUE
            /\ pc' = "postwait"
       ELSE /\ cnp' = [cnp EXCEPT !.i = cnp.i + 1, !.clicks = cnp.clicks + 1]
            /\ UNCHANGED <<has_next, pc>>
    /\ UNCHANGED <<site, max_pages, keyword, page_num, all_results,
                   quits, visited, nextCalls, exc, ret, cx, sv>>

\* lines 192-195 and 222-229: the fallback list exhausted, or el.text
\* raising on a detached link, which the outer except takes; click_next_page
\* returns False and scrape_site breaks and returns
ReturnFalse ==
    /\ pc = "cnp" /\ cnp.phase = "pagelem"
    /\ cnp.i > Len(cnp.elems) \/ ~Attached
    /\ cnp' = [cnp EXCEPT !.phase = "returned"]
    /\ has_next' = FALSE
    /\ pc' = "finally"
    /\ ret' = [some |-> TRUE, val |-> all_results]
    /\ UNCHANGED <<site, max_pages, keyword, cur, page_num, all_results,
                   quits, lateOps, visited, nextCalls, exc, cx, sv>>

\* line 226: WebDriverWait(...).until outside any try/except
PostAdvanceWait ==
    /\ pc = "postwait"
    /\ DriverOp
    /\ \/ pc' = "wait" /\ exc' = exc
       \/ pc' = "finally" /\ exc' = "TimeoutException"
    /\ UNCHANGED <<site, max_pages, keyword, cur, page_num, all_results, has_next, cnp,
                   quits, visited, nextCalls, ret, cx, sv>>

\* lines 230-231: the finally clause, on the return and on the exception
FinallyOnReturnOnly ==
    /\ pc = "finally"
    /\ quits' = IF exc = "none" THEN quits + 1 ELSE quits
    /\ pc' = "done"
    /\ UNCHANGED <<site, max_pages, keyword, cur, page_num, all_results, has_next, cnp,
                   lateOps, visited, nextCalls, exc, ret, cx, sv>>
Finally ==
    /\ pc = "finally"
    /\ quits' = quits + 1
    /\ pc' = "done"
    /\ UNCHANGED <<site, max_pages, keyword, cur, page_num, all_results, has_next, cnp,
                   lateOps, visited, nextCalls, exc, ret, cx, sv>>

Next ==
    \/ Get
    \/ WaitForVisible
    \/ ScrapePage
    \/ CnpFind
    \/ CnpNextSelector
    \/ CnpSkip
    \/ CnpClick
    \/ PagFind
    \/ PagSkip
    \/ PagClick
    \/ ReturnFalse
    \/ PostAdvanceWait
    \/ Finally

Spec == Init /\ [][Next]_vars

(***************************************************************************)
(* scrape_cards_on_page on its own, over every short Title and keyword.    *)
(***************************************************************************)
Texts == SeqsUpTo(Chars, MaxLen)

TitleLookups ==
    {ByCss(t) : t \in Texts} \cup {Missing, ByXPath(<<"b">>)}
CompanyLookups ==
    {Missing, ByCss(<<>>), ByXPath(<<"A">>), ByCss(<<"b", "a">>)}
OtherLookups == {AllOthers(Missing), AllOthers(ByCss(<<"b">>))}
KeywordInputs == {None} \cup {Some(t) : t \in Texts}

\* a container that follows the one under test
Trailing == Card(ByCss(<<"A", "b">>), Missing, AllOthers(Missing))

\* the containers sit under the first container selector, or nowhere but
\* under the XPath fallback
PageOf(cs, viaFallback) ==
    [bySelector |-> [k \in 1..NumCardSelectors |->
                        IF k = 1 /\ ~viaFallback THEN cs ELSE <<>>],
     fallback |-> IF viaFallback THEN cs ELSE <<>>]

CardInputs ==
    {PageOf(<<Card(t, c, o)>> \o tail, fb) :
        t \in TitleLookups, c \in CompanyLookups, o \in OtherLookups,
        tail \in {<<>>, <<Trailing>>}, fb \in BOOLEAN}

IdleSite == [ctl |-> <<>>, lastCtl |-> <<>>, beh |-> "none", pages |-> 1]

RunIdle ==
    /\ site = IdleSite
    /\ max_pages = NoInt
    /\ keyword = None
    /\ pc = "off"
    /\ cur = 1
    /\ page_num = 0
    /\ all_results = <<>>
    /\ has_next = FALSE
    /\ cnp = CnpIdle
    /\ quits = 0
    /\ lateOps = 0
    /\ visited = <<>>
    /\ nextCalls = 0
    /\ exc = "none"
    /\ ret = NoResults

InitCards ==
    /\ RunIdle
    /\ sv = SvIdle
    /\ cx \in [page : CardInputs, keyword : KeywordInputs, done : {FALSE},
                results : {<<>>}]

ScrapeCards ==
    /\ pc = "off" /\ ~cx.done
    /\ cx' = [cx EXCEPT !.done = TRUE,
                        !.results = scrape_cards_on_page(cx.page, cx.keyword)]
    /\ UNCHANGED <<runVars, sv>>

NextCards == ScrapeCards

SpecCards == InitCards /\ [][NextCards]_vars

(***************************************************************************)
(* save_results on its own.                                                *)
(***************************************************************************)
Columns == <<"Title", "Company", "Location", "Mode", "Duration", "Fees", "Apply-by">>

\* lines 239-240: the header line, then one line per record, the columns
\* in the order of the record's keys
CsvFile(rows) ==
    [fmt |-> "csv",
     body |-> <<Columns>> \o [i \in 1..Len(rows) |->
                                 [k \in 1..Len(Columns) |-> rows[i][Columns[k]]]]]

\* lines 243-244
JsonFile(rows) == [fmt |-> "json", body |-> rows]

\* lines 235-245: the file system after the call, and the paths written
SaveResultsNoGuard(rows, csv_path, json_path, fs) ==
    LET fs1 == [fs EXCEPT ![csv_path] = CsvFile(rows)]
    IN  IF TruthyPath(json_path)
        THEN [fs |-> [fs1 EXCEPT ![json_path.val] = JsonFile(rows)],
              writes |-> <<csv_path, json_path.val>>]
        ELSE [fs |-> fs1, writes |-> <<csv_path>>]
save_results(rows, csv_path, json_path, fs) ==
    IF rows = <<>> THEN [fs |-> fs, writes |-> <<>>]
    ELSE LET fs1 == [fs EXCEPT ![csv_path] = CsvFile(rows)]
         IN  IF TruthyPath(json_path)
             THEN [fs |-> [fs1 EXCEPT ![json_path.val] = JsonFile(rows)],
                   writes |-> <<csv_path, json_path.val>>]
             ELSE [fs |-> fs1, writes |-> <<csv_path>>]

RowPool ==
    {MakeItem(Card(ByCss(<<"a">>), Missing, AllOthers(Missing))),
     MakeItem(Card(Missing, ByCss(<<"A", "b">>), AllOthers(ByCss(<<"b">>))))}

JsonPathInputs == {NoPath, SomePath("")} \cup {SomePath(p) : p \in Paths}

InitSave ==
    /\ RunIdle
    /\ cx = CxIdle
    /\ \E rows \in SeqsUpTo(RowPool, MaxRows), c \in Paths, j \in JsonPathInputs,
          f \in FileSystems :
          sv = [rows |-> rows, csv_path |-> c, json_path |-> j, fs0 |-> f, fs |-> f,
                writes |-> <<>>, done |-> FALSE]

SaveResults ==
    /\ pc = "off" /\ ~sv.done
    /\ LET r == save_results(sv.rows, sv.csv_path, sv.json_path, sv.fs)
       IN  sv' = [sv EXCEPT !.done = TRUE, !.fs = r.fs, !.writes = r.writes]
    /\ UNCHANGED <<runVars, cx>>

NextSave == SaveResults

SpecSave == InitSave /\ [][NextSave]_vars

(***************************************************************************)
(* Vocabulary of the properties, stated without the operators of the       *)
(* model above.                                                            *)
(***************************************************************************)
Range(q) == {q[i] : i \in DOMAIN q}

IsPrefix(a, b) == Len(a) <= Len(b) /\ SubSeq(b, 1, Len(a)) = a

\* two characters that differ at most in case
SameLetter(c, d) ==
    \/ c = d
    \/ <<c, d>> \in {<<"a", "A">>, <<"A", "a">>, <<"b", "B">>, <<"B", "b">>}

\* needle is a case-insensitive substring of hay
CIContains(needle, hay) ==
    \E off \in 0..(Len(hay) - Len(needle)) :
        \A j \in 1..Len(needle) : SameLetter(needle[j], hay[off + j])

HasTitleOrCompany(it) == it.Title # <<>> \/ it.Company # <<>>

MatchesKeyword(it, kw) ==
    ~kw.some \/ CIContains(kw.val, it.Title) \/ CIContains(kw.val, it.Company)

\* the records a page owes: its containers' records in DOM order, those
\* kept that have a Title or a Company and match the keyword
Owed(page, kw) ==
    LET cs == FindCards(page)
        items == [i \in 1..Len(cs) |-> MakeItem(cs[i])]
        Keep(it) == HasTitleOrCompany(it) /\ MatchesKeyword(it, kw)
    IN  SelectSeq(items, Keep)

RECURSIVE OwedAll(_, _)
OwedAll(pages, kw) ==
    IF pages = <<>> THEN <<>>
    ELSE OwedAll(SubSeq(pages, 1, Len(pages) - 1), kw)
         \o Owed(CardPage(pages[Len(pages)]), kw)

\* the controls of a layout that some pagination heuristic matches
NextControls(ctl) ==
    {k \in 1..Len(ctl) :
        \/ \E s \in 1..NumNextSelectors : Matches(s, ctl[k])
        \/ MatchesPagination(ctl[k]) /\ TextHasNext(ctl[k])}

NoEnabledNext(ctl) == \A k \in NextControls(ctl) : IsDisabled(ctl[k])

(***************************************************************************)
(* The claims.                                                             *)
(***************************************************************************)

C2_ReleasedExactlyOnce ==
    /\ pc \in {"get", "wait", "scrape", "cnp", "postwait", "finally"} => quits = 0
    /\ pc = "done" => quits = 1
    /\ lateOps = 0

C2_Witness ==
    /\ pc = "done" /\ quits = 1
    /\ exc = "TimeoutException"
    /\ Len(visited) >= 1 /\ cnp.clicks >= 1

\* C3: no wait that times out (page readiness, post-click staleness, the
\* wait after a successful advance) aborts the run: no TimeoutException
\* leaves scrape_site, and the run returns the records accumulated.
C3_TimeoutsNeverAbort ==
    /\ exc # "TimeoutException"
    /\ (pc = "done" /\ exc = "none" => ret.some /\ ret.val = all_results)

\* C4: when every control the pagination heuristics match is flagged
\* disabled, click_next_page delivers no click, leaves the page shown
\* unchanged and returns False.
C4_AllDisabledNoClick ==
    (pc # "off" /\ cnp.phase # "idle" /\ NoEnabledNext(Ctl(cnp.start))) =>
        /\ cnp.clicks = 0
        /\ cur = cnp.start
        /\ (cnp.phase = "returned" => ~has_next)

\* C5: every record of all_results has a non-empty Title or a non-empty
\* Company; a container of a page visited whose Title and Company are both
\* empty has no record; a container with a Title or a Company that matches
\* the keyword (if any) has its record, whichever of its other five fields
\* are empty.
C5_TitleOrCompany ==
    /\ \A i \in DOMAIN all_results : HasTitleOrCompany(all_results[i])
    /\ \A j \in DOMAIN visited :
          \A c \in Range(FindCards(CardPage(visited[j]))) :
              LET it == MakeItem(c)
              IN  /\ ~HasTitleOrCompany(it) => it \notin Range(all_results)
                  /\ HasTitleOrCompany(it) /\ MatchesKeyword(it, keyword)
                         => it \in Range(all_results)

C5_Witness ==
    /\ Len(visited) >= 2
    /\ \E c \in Range(FindCards(CardPage(visited[1]))) : ~HasTitleOrCompany(MakeItem(c))
    /\ \E i \in DOMAIN all_results :
          all_results[i].Title = <<>> /\ all_results[i].Company # <<>>
    /\ \E i \in DOMAIN all_results : \E f \in OtherFields :
          all_results[i][f] = <<>> /\ \E g \in OtherFields : all_results[i][g] # <<>>

\* C6: with a keyword supplied, the record of a container that has a Title
\* or a Company is in the output of scrape_cards_on_page if and only if the
\* keyword is a case-insensitive substring of its Title or of its Company.
C6_KeywordIff ==
    (cx.done /\ cx.keyword.some) =>
        \A c \in Range(FindCards(cx.page)) :
            LET it == MakeItem(c)
            IN  HasTitleOrCompany(it) =>
                    (it \in Range(cx.results)
                        <=> \/ CIContains(cx.keyword.val, it.Title)
                            \/ CIContains(cx.keyword.val, it.Company))

C6_Witness ==
    /\ cx.done /\ cx.keyword.some
    /\ cx.keyword.val # <<>> /\ Lower(cx.keyword.val) # cx.keyword.val
    /\ Len(cx.results) = 1
    /\ Len(FindCards(cx.page)) = 2
    /\ \A c \in Range(FindCards(cx.page)) : HasTitleOrCompany(MakeItem(c))

\* C7: save_results with an empty list writes no file and leaves every
\* file as it was; with a non-empty list it writes the CSV, and it writes
\* the JSON exactly when a (non-empty) json_path is given.
C7_EmptyWritesNothing ==
    sv.done =>
        IF sv.rows = <<>>
        THEN sv.writes = <<>> /\ sv.fs = sv.fs0
        ELSE /\ sv.csv_path \in Range(sv.writes)
             /\ \A p \in Paths \ {sv.csv_path} :
                   IF sv.json_path.some /\ sv.json_path.val = p
                   THEN sv.fs[p].fmt = "json" /\ sv.fs[p].body = sv.rows
                   ELSE sv.fs[p] = sv.fs0[p]
             /\ (\E i \in DOMAIN sv.writes : sv.fs[sv.writes[i]].fmt = "json")
                   <=> (sv.json_path.some /\ sv.json_path.val # "")
             /\ (~(sv.json_path.some /\ sv.json_path.val = sv.csv_path)
                   => /\ sv.fs[sv.csv_path].fmt = "csv"
                      /\ Len(sv.fs[sv.csv_path].body) = Len(sv.rows) + 1)

C7_Witness ==
    /\ sv.done /\ sv.rows = <<>>
    /\ sv.json_path.some /\ sv.json_path.val = "out.json"
    /\ sv.fs0["out.csv"] = Old /\ sv.fs["out.csv"] = Old

\* C8: the list scrape_site holds, and returns, is the concatenation, in
\* the order of the visits, of what each page visited owes, each page's
\* records in the DOM order of its containers; the list only ever grows at
\* its end.
C8_ConcatInVisitOrder ==
    /\ [](/\ all_results = OwedAll(visited, keyword)
          /\ (ret.some => ret.val = OwedAll(visited, keyword)))
    /\ [][IsPrefix(all_results, all_results')]_vars

C8_Witness ==
    /\ pc = "done" /\ ret.some
    /\ Len(visited) = NumPages /\ visited[NumPages] = NumPages
    /\ Len(ret.val) >= 2 * NumPages
    /\ \E i \in DOMAIN ret.val : ret.val[i].Title = <<"a", DigitChar(NumPages)>>

\* C9: click_next_page returns True if and only if it clicked a next
\* control and the page changed; when it returns False it has delivered no
\* click and the page shown is the one shown at the call.
C9_ReturnReportsAdvance ==
    (pc # "off" /\ cnp.phase = "returned") =>
        /\ has_next <=> (cnp.clicks > 0 /\ cur # cnp.start)
        /\ (~has_next => cnp.clicks = 0 /\ cur = cnp.start)

\* C10: one call of click_next_page delivers at most one click and moves
\* at most one page on, and every page before the one shown has been
\* extracted.
C10_AtMostOneClick ==
    /\ cnp.clicks <= 1
    /\ (cnp.phase # "idle" => cur - cnp.start <= 1)
    /\ \A p \in 1..(cur - 1) : p \in Range(visited)

====
